---- MODULE Spec2Model ----
(***************************************************************************)
(* Model of the marshaling layer of deno-sqlite (src/wasm.ts): setStr,     *)
(* setArr, getStr and the SqliteError constructor, over a foreign module   *)
(* with a linear memory, malloc, free, str_len, get_status and             *)
(* get_sqlite_error_str.                                                   *)
(*                                                                         *)
(* A host string is a sequence of UTF-16 code units (0..65535); a byte     *)
(* array is a sequence of bytes (0..255).                                  *)
(***************************************************************************)
EXTENDS Integers, Sequences, FiniteSets, TLC

\* ------------------------------------------------------------------------
\* Bit operations of the host language on non-negative integers.

RECURSIVE BitAnd(_, _)
BitAnd(a, b) ==
  IF a = 0 \/ b = 0 THEN 0
  ELSE (IF a % 2 = 1 /\ b % 2 = 1 THEN 1 ELSE 0) + 2 * BitAnd(a \div 2, b \div 2)

RECURSIVE BitOr(_, _)
BitOr(a, b) ==
  IF a = 0 THEN b
  ELSE IF b = 0 THEN a
  ELSE (IF a % 2 = 1 \/ b % 2 = 1 THEN 1 ELSE 0) + 2 * BitOr(a \div 2, b \div 2)

RECURSIVE Pow2(_)
Pow2(n) == IF n = 0 THEN 1 ELSE 2 * Pow2(n - 1)

\* x << n and x >> n on values that stay below 2^31
Shl(x, n) == x * Pow2(n)
Shr(x, n) == x \div Pow2(n)

\* String.fromCharCode(c): the code unit c modulo 2^16
FromCharCode(c) == c % 65536

\* ------------------------------------------------------------------------
\* new TextEncoder().encode(str): UTF-16 code units to UTF-8 bytes.  A
\* surrogate pair is one code point; a lone surrogate is encoded as U+FFFD.

IsHighSurrogate(c) == c >= 55296 /\ c <= 56319
IsLowSurrogate(c) == c >= 56320 /\ c <= 57343

Utf8OfCodePoint(cp) ==
  IF cp < 128 THEN <<cp>>
  ELSE IF cp < 2048 THEN <<192 + (cp \div 64), 128 + (cp % 64)>>
  ELSE IF cp < 65536
    THEN <<224 + (cp \div 4096), 128 + ((cp \div 64) % 64), 128 + (cp % 64)>>
  ELSE <<240 + (cp \div 262144), 128 + ((cp \div 4096) % 64),
         128 + ((cp \div 64) % 64), 128 + (cp % 64)>>

RECURSIVE TextEncode(_)
TextEncode(str) ==
  IF str = <<>> THEN <<>>
  ELSE LET c == Head(str) IN
    IF IsHighSurrogate(c) /\ Len(str) >= 2 /\ IsLowSurrogate(str[2])
      THEN Utf8OfCodePoint(65536 + (c - 55296) * 1024 + (str[2] - 56320))
           \o TextEncode(Tail(Tail(str)))
    ELSE IF IsHighSurrogate(c) \/ IsLowSurrogate(c)
      THEN Utf8OfCodePoint(65533) \o TextEncode(Tail(str))
    ELSE Utf8OfCodePoint(c) \o TextEncode(Tail(str))

\* ------------------------------------------------------------------------
\* new TextDecoder().decode(bytes): the UTF-8 decoder of the Encoding
\* standard with the default options (fatal = false, ignoreBOM = false).
\* Ill-formed input yields U+FFFD; a leading byte order mark EF BB BF is
\* removed from the output.

CodeUnitsOf(cp) ==
  IF cp < 65536 THEN <<cp>>
  ELSE <<55296 + ((cp - 65536) \div 1024), 56320 + ((cp - 65536) % 1024)>>

\* Decoder state: cp (code point), need (bytes needed), lo/hi (bounds of the
\* next continuation byte).
RECURSIVE Utf8DecodeFrom(_, _, _, _, _, _)
Utf8DecodeFrom(bytes, i, cp, need, lo, hi) ==
  IF i > Len(bytes) THEN (IF need # 0 THEN <<65533>> ELSE <<>>)
  ELSE LET b == bytes[i] IN
    IF need = 0 THEN
      IF b <= 127 THEN <<b>> \o Utf8DecodeFrom(bytes, i + 1, 0, 0, 128, 191)
      ELSE IF b >= 194 /\ b <= 223
        THEN Utf8DecodeFrom(bytes, i + 1, b % 32, 1, 128, 191)
      ELSE IF b >= 224 /\ b <= 239
        THEN Utf8DecodeFrom(bytes, i + 1, b % 16, 2,
                            IF b = 224 THEN 160 ELSE 128,
                            IF b = 237 THEN 159 ELSE 191)
      ELSE IF b >= 240 /\ b <= 244
        THEN Utf8DecodeFrom(bytes, i + 1, b % 8, 3,
                            IF b = 240 THEN 144 ELSE 128,
                            IF b = 244 THEN 143 ELSE 191)
      ELSE <<65533>> \o Utf8DecodeFrom(bytes, i + 1, 0, 0, 128, 191)
    ELSE IF b < lo \/ b > hi
      \* the byte is put back and decoded again as a lead byte
      THEN <<65533>> \o Utf8DecodeFrom(bytes, i, 0, 0, 128, 191)
    ELSE IF need = 1
      THEN CodeUnitsOf(cp * 64 + (b % 64))
           \o Utf8DecodeFrom(bytes, i + 1, 0, 0, 128, 191)
    ELSE Utf8DecodeFrom(bytes, i + 1, cp * 64 + (b % 64), need - 1, 128, 191)

HasBom(bytes) ==
  Len(bytes) >= 3 /\ bytes[1] = 239 /\ bytes[2] = 187 /\ bytes[3] = 191

TextDecode(bytes) ==
  Utf8DecodeFrom(bytes, IF HasBom(bytes) THEN 4 ELSE 1, 0, 0, 128, 191)

\* ------------------------------------------------------------------------
\* getStr, the per-code-point loop used when len <= 16.
\* bytes[idx++] beyond the view is undefined, and undefined & 63 is 0.

ByteAt(bytes, idx) == IF idx < Len(bytes) THEN bytes[idx + 1] ELSE 0

RECURSIVE ShortDecodeFrom(_, _, _)
ShortDecodeFrom(bytes, idx, str) ==
  IF ~(idx < Len(bytes)) THEN str
  ELSE LET u0 == bytes[idx + 1] IN
    IF BitAnd(u0, 128) = 0
      THEN ShortDecodeFrom(bytes, idx + 1, Append(str, FromCharCode(u0)))
    ELSE LET u1 == BitAnd(ByteAt(bytes, idx + 1), 63) IN
      IF BitAnd(u0, 224) = 192
        THEN ShortDecodeFrom(bytes, idx + 2,
               Append(str, FromCharCode(BitOr(Shl(BitAnd(u0, 31), 6), u1))))
      ELSE LET u2 == BitAnd(ByteAt(bytes, idx + 2), 63)
               three == BitAnd(u0, 240) = 224
               cp == IF three
                       THEN BitOr(BitOr(Shl(BitAnd(u0, 15), 12), Shl(u1, 6)), u2)
                       ELSE BitOr(BitOr(BitOr(Shl(BitAnd(u0, 7), 18), Shl(u1, 12)),
                                        Shl(u2, 6)),
                                  BitAnd(ByteAt(bytes, idx + 3), 63))
               next == IF three THEN idx + 3 ELSE idx + 4
           IN IF cp < 65536
                THEN ShortDecodeFrom(bytes, next, Append(str, FromCharCode(cp)))
                ELSE LET ch == cp - 65536 IN
                  ShortDecodeFrom(bytes, next,
                    str \o <<FromCharCode(BitOr(55296, Shr(ch, 10))),
                             FromCharCode(BitOr(56320, BitAnd(ch, 1023)))>>)

ShortDecode(bytes) == ShortDecodeFrom(bytes, 0, <<>>)

\* The length up to which getStr uses the per-code-point loop.
ShortPathMax == 16

\* getStr's decoding of the len bytes of its view
DecodeView(bytes) ==
  IF Len(bytes) > ShortPathMax THEN TextDecode(bytes) ELSE ShortDecode(bytes)


\* ------------------------------------------------------------------------
\* Bounds of the model

\* bytes of foreign linear memory that are modelled
MemSize == 80
\* bytes at the top of the memory that hold the module's error string
ErrCap == 24
\* the pointers malloc returns are multiples of Align
Align == 24
\* marshaling calls in one behaviour
MaxCalls == 2
\* nesting of marshaling calls inside continuations
MaxDepth == 2
\* times the foreign module replaces its memory buffer by a larger one
MaxGrow == 1
\* SqliteError objects constructed from the module handle
MaxErrors == 2
\* code points of a decoder input
MaxCodePoints == 3

\* ------------------------------------------------------------------------
\* Values

Addr == 0 .. (MemSize - 1)
\* what uninitialised foreign memory holds
Garbage == 170

Pad(n) == [i \in 1 .. n |-> 97]

\* Host strings passed to setStr: empty, "h\u00e9llo", a 3-byte character
\* and a surrogate pair, 16 and 17 encoded bytes, a leading U+FEFF in 17
\* bytes.
StrPayloads ==
  { <<>>,
    <<104, 233, 108, 108, 111>>,
    <<8364, 55357, 56832>>,
    <<233>> \o Pad(14),
    <<8364>> \o Pad(14),
    <<65279>> \o Pad(14) }

\* Byte arrays passed to setArr
ArrPayloads == { <<>>, <<1, 0, 255>> }

\* Status (src/constants.ts): the code of an error raised by the host side
StatusUnknown == -1
\* status codes the module reports: SqliteOk, SqliteError, SqliteConstraint
ModuleStatuses == {0, 1, 19}
\* error strings the module reports: "ok", "b\u20acd", and 17 bytes with a
\* leading U+FEFF
ModuleMessages == { <<111, 107>>, <<98, 8364, 100>>, <<65279>> \o Pad(14) }

\* "Out of memory."
OutOfMemoryMessage ==
  <<79, 117, 116, 32, 111, 102, 32, 109, 101, 109, 111, 114, 121, 46>>

\* A host value or exception object
Thing(name, message, code) == [name |-> name, message |-> message, code |-> code]
\* values a continuation returns, failures it raises
ClosureResults == { Thing("Value", <<>>, 1) }
ClosureErrors == { Thing("Error", <<>>, 1) }
\* the WebAssembly.RuntimeError of the n-th wasm.free call of a marshaling call
Trap(n) == Thing("RuntimeError", <<>>, n)

Return(v) == [kind |-> "return", val |-> v]
Raise(e) == [kind |-> "raise", val |-> e]
NoOutcome == [kind |-> "none", val |-> Thing("none", <<>>, 0)]

\* An event of a marshaling call
Ev(ev, a, b) == [ev |-> ev, a |-> a, b |-> b]

VARIABLES
  mem,        \* wasm.memory.buffer: address -> byte
  memGen,     \* identity of wasm.memory.buffer: a growth replaces the buffer
  heap,       \* blocks the foreign allocator has handed out: [ptr, size]
  heapOk,     \* FALSE once free was called on a pointer that is not allocated:
              \* the allocator's state is undefined from then on
  trapped,    \* a wasm.free call has trapped
  stack,      \* marshaling calls in progress, innermost last; each is inside
              \* its continuation
  done,       \* the marshaling call that exited last
  calls,      \* marshaling calls started
  lastStatus, \* the module's get_status()
  errors,     \* SqliteError objects constructed from the module handle
  cin,        \* decoder input (bytes)
  cshort,     \* <<result>> of the per-code-point loop on cin
  cbulk       \* <<result>> of the bulk decoder on cin

vars == <<mem, memGen, heap, heapOk, trapped, stack, done, calls, lastStatus, errors,
          cin, cshort, cbulk>>
marshalVars == <<mem, memGen, heap, heapOk, trapped, stack, done, calls>>
errVars == <<lastStatus, errors>>
codecVars == <<cin, cshort, cbulk>>

\* ------------------------------------------------------------------------
\* The foreign module

\* wasm.get_sqlite_error_str(): the address of the module's error string
ErrPtr == MemSize - ErrCap
Arena == { a \in Addr : a >= Align /\ a < ErrPtr }

Span(ptr, size) == { a \in Addr : a >= ptr /\ a < ptr + size }
\* the bytes a block reserves (an empty block still has an address of its own)
Reserved(b) == Span(b.ptr, IF b.size = 0 THEN 1 ELSE b.size)

\* wasm.malloc(size): 0 when out of memory, else the address of size bytes
\* that no block reserves
MallocResults(h, size) ==
  {0} \cup { p \in Arena :
               /\ p % Align = 0
               /\ p + size <= ErrPtr
               /\ \A b \in h : Reserved(b) \cap Reserved([ptr |-> p, size |-> size]) = {} }

\* wasm.free(ptr) ends in one of: "ok" (released, returns), "trapFreed"
\* (released, then traps), "trapKept" (traps before releasing)
FreeResults == {"ok", "trapFreed", "trapKept"}
FreeRaised(r) == r # "ok"
IsAllocated(h, ptr) == \E b \in h : b.ptr = ptr
FreeHeap(h, ptr, r) ==
  IF r = "trapKept" THEN h ELSE { b \in h : b.ptr # ptr }

\* wasm.str_len(ptr): bytes before the first 0 at or after ptr
RECURSIVE StrLenFrom(_, _, _)
StrLenFrom(m, ptr, n) ==
  IF ptr + n >= MemSize \/ m[ptr + n] = 0 THEN n ELSE StrLenFrom(m, ptr, n + 1)
StrLen(m, ptr) == StrLenFrom(m, ptr, 0)


\* ------------------------------------------------------------------------
\* Views: new Uint8Array(wasm.memory.buffer, ptr, len).  A view is on the
\* buffer that was current when it was built (gen); once the memory has
\* grown that buffer is detached: the view is empty, writes are dropped.

\* bufAtEntry: the buffer when the function was entered; bufNow: the buffer
\* when the view is built
NewViewStale(bufAtEntry, bufNow, ptr, len) ==
  [gen |-> bufAtEntry, ptr |-> ptr, len |-> len]

NewView(bufAtEntry, bufNow, ptr, len) ==
  [gen |-> bufNow, ptr |-> ptr, len |-> len]

\* view.set(bytes)
ViewSet(m, gen, view, bytes) ==
  IF view.gen # gen \/ Len(bytes) > view.len THEN m
  ELSE [a \in Addr |->
          IF a >= view.ptr /\ a < view.ptr + Len(bytes)
            THEN bytes[a - view.ptr + 1] ELSE m[a]]

\* view[idx] = byte; an index outside the view is ignored
ViewPut(m, gen, view, idx, byte) ==
  IF view.gen # gen \/ idx >= view.len \/ view.ptr + idx >= MemSize THEN m
  ELSE [m EXCEPT ![view.ptr + idx] = byte]

\* the bytes of the view
ViewBytes(m, gen, view) ==
  IF view.gen # gen THEN <<>>
  ELSE [i \in 1 .. view.len |-> m[view.ptr + i - 1]]

\* ------------------------------------------------------------------------
\* getStr(wasm, ptr); bufNow is the buffer after the str_len call

GetStr(m, bufAtEntry, bufNow, ptr) ==
  LET len == StrLen(m, ptr)
      bytes == ViewBytes(m, bufNow, NewView(bufAtEntry, bufNow, ptr, len))
  IN DecodeView(bytes)

GetStrEvents(m, bufAtEntry, bufNow, ptr) ==
  LET len == StrLen(m, ptr)
      view == NewView(bufAtEntry, bufNow, ptr, len)
  IN << Ev("strlen", ptr, len), Ev("view", view.gen, len),
        Ev("read", view.gen, bufNow) >>

\* ------------------------------------------------------------------------
\* SqliteError

\* code || status
CoalesceFalsy(code, status) ==
  IF code = <<>> \/ code[1] = 0 THEN status ELSE code[1]

\* code ?? status; code is <<>> (undefined) or <<c>>
Coalesce(code, status) == IF code = <<>> THEN status ELSE code[1]

\* context of the constructor: a string, or the module handle
StringContext(str) == [isString |-> TRUE, str |-> str]
ModuleContext(m, gen, status) ==
  [isString |-> FALSE, mem |-> m, gen |-> gen, status |-> status]

SqliteErrorNew(context, code) ==
  LET message == IF context.isString THEN context.str
                 ELSE GetStr(context.mem, context.gen, context.gen, ErrPtr)
      status == IF context.isString THEN StatusUnknown ELSE context.status
  IN Thing("SqliteError", message, Coalesce(code, status))

\* ------------------------------------------------------------------------
\* setStr and setArr up to the call of the closure

\* ptr < 0: never true of a pointer
OomCheckNever(ptr) == ptr < 0

\* ptr === 0
OomCheck(ptr) == ptr = 0

\* bytes.length
SetStrAllocSizeNoNul(bytes) == Len(bytes)

\* bytes.length + 1
SetStrAllocSize(bytes) == Len(bytes) + 1

\* arr.length
SetArrAllocSize(arr) == Len(arr)

\* wasm.memory.buffer after a foreign call that may grow the memory
BufferAfter(gen) == {gen} \cup { g \in {gen + 1} : g <= MaxGrow }

\* the allocator's state after malloc returned ptr
HeapAfterMalloc(h, ptr, size) ==
  IF ptr = 0 THEN h ELSE h \cup {[ptr |-> ptr, size |-> size]}

\* mem.set(bytes); mem[bytes.length] = 0
SetStrCopy(m, gen, view, bytes) ==
  ViewPut(ViewSet(m, gen, view, bytes), gen, view, Len(bytes), 0)

\* mem.set(arr)
SetArrCopy(m, gen, view, arr) == ViewSet(m, gen, view, arr)

\* A marshaling call in progress: its arguments, its pointer, its events
\* and what its closure read with getStr
NoFrame ==
  [fn |-> "none", str |-> <<>>, bytes |-> <<>>, ptr |-> 0, log |-> <<>>,
   read |-> <<>>]

\* A marshaling call that exited: its malloc, closure and free events, the
\* outcome of its closure and its own
NoCall ==
  [fn |-> "none", ptr |-> 0, depth |-> 0, log |-> <<>>,
   closure |-> NoOutcome, outcome |-> NoOutcome]

IsProtocolEvent(e) == e.ev \in {"malloc", "closure", "free"}

\* A marshaling call fn(wasm, payload, closure); bytes is the encoded
\* payload.  The call runs to the closure, or to the out-of-memory throw.
\* No call is made once a wasm.free has trapped: the module instance is
\* beyond use then.
Marshal(fn, str, bytes, size, terminated) ==
  /\ calls < MaxCalls
  /\ Len(stack) < MaxDepth
  /\ ~trapped
  /\ calls' = calls + 1
  /\ \E ptr \in MallocResults(heap, size) :
       LET call == [NoFrame EXCEPT !.fn = fn, !.str = str, !.bytes = bytes,
                                   !.ptr = ptr,
                                   !.log = <<Ev("malloc", size, ptr)>>]
       IN IF OomCheck(ptr)
            THEN /\ done' = [NoCall EXCEPT
                     !.fn = fn, !.ptr = ptr, !.depth = Len(stack) + 1,
                     !.log = call.log,
                     !.outcome = Raise(SqliteErrorNew(StringContext(OutOfMemoryMessage), <<>>))]
                 /\ UNCHANGED <<mem, memGen, heap, heapOk, stack>>
            ELSE \E gen \in BufferAfter(memGen) :
                   LET view == NewView(memGen, gen, ptr, size)
                   IN /\ memGen' = gen
                      /\ heap' = HeapAfterMalloc(heap, ptr, size)
                      /\ mem' = IF terminated
                                  THEN SetStrCopy(mem, gen, view, bytes)
                                  ELSE SetArrCopy(mem, gen, view, bytes)
                      /\ stack' = Append(stack,
                           [call EXCEPT !.log = @ \o
                              << Ev("view", view.gen, view.len),
                                 Ev("write", view.gen, gen),
                                 Ev("closure", ptr, 0) >>])
                      /\ UNCHANGED <<heapOk, done>>
  /\ UNCHANGED <<trapped, errVars, codecVars>>

SetStr(str) ==
  LET bytes == TextEncode(str)
  IN Marshal("setStr", str, bytes, SetStrAllocSize(bytes), TRUE)

SetArr(arr) == Marshal("setArr", <<>>, arr, SetArrAllocSize(arr), FALSE)


\* ------------------------------------------------------------------------
\* setStr and setArr from the closure's end to the exit.  A block gives the
\* allocator's state after it, the results of its wasm.free calls and the
\* outcome of the marshaling call.

\* wasm.free(ptr) ending with r: free(0) does nothing; a pointer that is not
\* allocated leaves the allocator's state undefined
FreeCall(h, ok, ptr, r) ==
  [heap |-> FreeHeap(h, ptr, r), ok |-> ok /\ (ptr = 0 \/ IsAllocated(h, ptr))]

\* catch (error) { throw error; }
CatchBlockNoFree(h, ok, ptr, error, r, n) ==
  [heap |-> h, ok |-> ok, frees |-> <<>>, outcome |-> Raise(error)]

\* catch (error) { wasm.free(ptr); throw new SqliteError(...); }
CatchBlockWrap(h, ok, ptr, error, r, n) ==
  LET f == FreeCall(h, ok, ptr, r)
  IN [heap |-> f.heap, ok |-> f.ok, frees |-> <<r>>,
      outcome |-> IF FreeRaised(r) THEN Raise(Trap(n))
                  ELSE Raise(Thing("SqliteError", error.message, StatusUnknown))]

\* catch (error) { wasm.free(ptr); throw error; }
\* r: how this wasm.free ends; n: its number among the call's wasm.free calls
CatchBlock(h, ok, ptr, error, r, n) ==
  LET f == FreeCall(h, ok, ptr, r)
  IN [heap |-> f.heap, ok |-> f.ok, frees |-> <<r>>,
      outcome |-> IF FreeRaised(r) THEN Raise(Trap(n)) ELSE Raise(error)]

\* try { const result = closure(ptr); wasm.free(ptr); return result; }
\* catch ...; co is the closure's outcome, rs how the wasm.free calls end
TryBlock(h, ok, ptr, co, rs) ==
  IF co.kind = "raise" THEN CatchBlock(h, ok, ptr, co.val, rs[1], 1)
  ELSE LET f == FreeCall(h, ok, ptr, rs[1])
       IN IF ~FreeRaised(rs[1])
            THEN [heap |-> f.heap, ok |-> f.ok, frees |-> <<rs[1]>>,
                  outcome |-> Return(co.val)]
            ELSE LET c == CatchBlock(f.heap, f.ok, ptr, Trap(1), rs[2], 2)
                 IN [c EXCEPT !.frees = <<rs[1]>> \o @]

\* how the wasm.free calls of an exit can end: the second is reached when
\* the closure returned and the first trapped
FreeRuns(co) ==
  IF co.kind = "raise" THEN { <<r>> : r \in FreeResults }
  ELSE {<<"ok">>} \cup
       { <<r1, r2>> : r1 \in FreeResults \ {"ok"}, r2 \in FreeResults }

FreeEvents(ptr, frees) ==
  [i \in 1 .. Len(frees) |-> Ev("free", ptr, IF FreeRaised(frees[i]) THEN 1 ELSE 0)]

InClosure == stack # <<>>
Top == stack[Len(stack)]

\* The closure of the innermost call ends with outcome co; the call frees
\* and exits.
Exit(co) ==
  /\ InClosure
  /\ \E rs \in FreeRuns(co) :
       LET x == TryBlock(heap, heapOk, Top.ptr, co, rs)
       IN /\ heap' = x.heap
          /\ heapOk' = x.ok
          /\ trapped' = (trapped \/ \E i \in 1 .. Len(x.frees) : FreeRaised(x.frees[i]))
          /\ done' = [NoCall EXCEPT
               !.fn = Top.fn, !.ptr = Top.ptr, !.depth = Len(stack),
               !.log = SelectSeq(Top.log, IsProtocolEvent) \o FreeEvents(Top.ptr, x.frees),
               !.closure = co,
               !.outcome = x.outcome]
          /\ stack' = SubSeq(stack, 1, Len(stack) - 1)
  /\ UNCHANGED <<mem, memGen, calls, errVars, codecVars>>

ClosureReturn(v) == Exit(Return(v))

\* the failures the closure can raise: its own, or that of the marshaling
\* call it made last
Raisable ==
  ClosureErrors \cup
    { e \in {done.outcome.val} :
        done.depth = Len(stack) + 1 /\ done.outcome.kind = "raise" }

ClosureRaise(e) == Exit(Raise(e))

\* The closure reads its string back: getStr(wasm, ptr)
ClosureGetStr ==
  /\ InClosure
  /\ Top.fn = "setStr"
  /\ Top.read = <<>>
  /\ stack' = [stack EXCEPT ![Len(stack)] =
       [@ EXCEPT !.read = <<GetStr(mem, memGen, memGen, Top.ptr)>>,
                 !.log = @ \o GetStrEvents(mem, memGen, memGen, Top.ptr)]]
  /\ UNCHANGED <<mem, memGen, heap, heapOk, trapped, done, calls, errVars, codecVars>>

\* The closure calls into the module, which grows its memory
ClosureForeignCall ==
  /\ InClosure
  /\ memGen < MaxGrow
  /\ memGen' = memGen + 1
  /\ UNCHANGED <<stack, mem, heap, heapOk, trapped, done, calls, errVars, codecVars>>

\* ------------------------------------------------------------------------
\* The module's error state and SqliteError(wasm, code)

WriteErrorString(m, str) ==
  LET bytes == TextEncode(str)
  IN [a \in Addr |->
        IF a < ErrPtr THEN m[a]
        ELSE IF a - ErrPtr < Len(bytes) THEN bytes[a - ErrPtr + 1] ELSE 0]

\* A foreign operation sets the module's status and error string
ModuleOp(status, str) ==
  /\ lastStatus' = status
  /\ mem' = WriteErrorString(mem, str)
  /\ UNCHANGED <<memGen, heap, heapOk, trapped, stack, done, calls, errors, codecVars>>

\* new SqliteError(wasm, code); given records the code argument
NewSqliteError(code) ==
  /\ Len(errors) < MaxErrors
  /\ errors' = Append(errors,
       [error |-> SqliteErrorNew(ModuleContext(mem, memGen, lastStatus), code),
        given |-> code])
  /\ UNCHANGED <<marshalVars, lastStatus, codecVars>>

\* ------------------------------------------------------------------------
\* The decoders of getStr on their own

ScalarValues == {97, 233, 8364, 128512, 65279}

RECURSIVE Encodings(_)
Encodings(n) ==
  IF n = 0 THEN {<<>>}
  ELSE LET shorter == Encodings(n - 1)
       IN shorter \cup
          { Utf8OfCodePoint(cp) \o b : cp \in ScalarValues, b \in shorter }

DecodeShort ==
  /\ cshort = <<>>
  /\ cshort' = <<ShortDecode(cin)>>
  /\ UNCHANGED <<marshalVars, errVars, cin, cbulk>>

DecodeBulk ==
  /\ cbulk = <<>>
  /\ cbulk' = <<TextDecode(cin)>>
  /\ UNCHANGED <<marshalVars, errVars, cin, cshort>>

\* ------------------------------------------------------------------------
\* Specifications.  Spec: the marshaling calls.  SpecErr: the module's error
\* state and the errors constructed from it, which share no state with the
\* marshaling calls but the memory above the allocator's arena.  SpecCodec:
\* the two decoders of getStr on valid UTF-8.

InitMemory ==
  WriteErrorString([a \in Addr |-> Garbage], <<111, 107>>)

Init ==
  /\ mem = InitMemory
  /\ memGen = 0
  /\ heap = {}
  /\ heapOk = TRUE
  /\ trapped = FALSE
  /\ stack = <<>>
  /\ done = NoCall
  /\ calls = 0
  /\ lastStatus = 0
  /\ errors = <<>>
  /\ cin = <<>>
  /\ cshort = <<>>
  /\ cbulk = <<>>

Next ==
  \/ \E str \in StrPayloads : SetStr(str)
  \/ \E arr \in ArrPayloads : SetArr(arr)
  \/ ClosureGetStr
  \/ ClosureForeignCall
  \/ \E v \in ClosureResults : ClosureReturn(v)
  \/ \E e \in Raisable : ClosureRaise(e)

Spec == Init /\ [][Next]_vars

ErrNext ==
  \/ \E status \in ModuleStatuses : \E str \in ModuleMessages : ModuleOp(status, str)
  \/ \E code \in {<<>>} \cup { <<c>> : c \in ModuleStatuses } : NewSqliteError(code)

SpecErr == Init /\ [][ErrNext]_vars

CodecInit ==
  /\ mem = InitMemory
  /\ memGen = 0
  /\ heap = {}
  /\ heapOk = TRUE
  /\ trapped = FALSE
  /\ stack = <<>>
  /\ done = NoCall
  /\ calls = 0
  /\ lastStatus = 0
  /\ errors = <<>>
  /\ cin \in Encodings(MaxCodePoints)
  /\ cshort = <<>>
  /\ cbulk = <<>>

CodecNext == DecodeShort \/ DecodeBulk

SpecCodec == CodecInit /\ [][CodecNext]_vars


\* ------------------------------------------------------------------------
\* Properties

Frames == { stack[i] : i \in DOMAIN stack }
Exited == done.fn # "none"
EventsOf(log, ev) == { i \in DOMAIN log : log[i].ev = ev }
\* the size the call asked malloc for
Requested(f) == f.log[1].a
RaisedFrees(log) == { i \in EventsOf(log, "free") : log[i].b = 1 }

\* C1: a marshaling call whose malloc returned a non-zero pointer p has
\* called free exactly once, with p, when it exits.
C1_ReleasedExactlyOnce ==
  (Exited /\ done.ptr # 0) =>
    /\ Cardinality(EventsOf(done.log, "free")) = 1
    /\ \A i \in EventsOf(done.log, "free") : done.log[i].a = done.ptr

C2_Exit ==
  /\ \A f \in Frames : f.ptr # 0
  /\ (Exited /\ done.ptr = 0) =>
       /\ done.outcome = Raise(Thing("SqliteError", OutOfMemoryMessage, StatusUnknown))
       /\ done.closure = NoOutcome
       /\ EventsOf(done.log, "closure") = {}
       /\ EventsOf(done.log, "free") = {}

C2_Step ==
  (calls' # calls /\ done'.ptr = 0 /\ Len(stack') = Len(stack)) =>
    (mem' = mem /\ heap' = heap)

\* C2: a marshaling call whose malloc returned 0 raises SqliteError("Out of
\* memory.") with code Unknown, without calling the closure or free and
\* without writing to the memory.
C2_OutOfMemory == []C2_Exit /\ [][C2_Step]_vars

\* a nested call ran out of memory
C2_Witness == Exited /\ done.ptr = 0 /\ done.depth = 2

\* C3 as claimed: the outcome of a marshaling call that reached its closure
\* is the closure's outcome, and a free call precedes the exit.
C3_ClosureOutcomeDelivered ==
  (Exited /\ done.closure.kind # "none") =>
    /\ done.outcome = done.closure
    /\ done.log[Len(done.log)].ev = "free"

\* the number, among the call's free calls, of the last one that raised
LastRaisedFree(log) ==
  LET frees == SelectSeq(log, LAMBDA e : e.ev = "free")
  IN CHOOSE n \in DOMAIN frees :
       frees[n].b = 1 /\ \A k \in DOMAIN frees : frees[k].b = 1 => k <= n

\* C3 as amended: when no free call of the marshaling call raised, its
\* outcome is the closure's outcome; when one raised, the call raises the
\* failure of the last free call that raised.  A free call precedes the exit.
C3_OutcomeUnlessFreeRaises ==
  (Exited /\ done.closure.kind # "none") =>
    /\ done.log[Len(done.log)].ev = "free"
    /\ EventsOf(done.log, "closure") # {}
    /\ RaisedFrees(done.log) = {} => done.outcome = done.closure
    /\ RaisedFrees(done.log) # {} =>
         done.outcome = Raise(Trap(LastRaisedFree(done.log)))

\* a nested call passed on the failure its closure raised
C3_Witness ==
  /\ Exited
  /\ done.closure.kind = "raise"
  /\ done.outcome = done.closure
  /\ done.depth = 2

\* C4: what getStr reads at the pointer of a setStr call, inside its
\* closure, is the string that was passed to setStr.
C4_RoundTrip ==
  \A f \in Frames : (f.fn = "setStr" /\ f.read # <<>>) => f.read[1] = f.str

\* C5: on valid UTF-8 the per-code-point loop and the bulk decoder give the
\* same string.
C5_DecodersAgree ==
  (cshort # <<>> /\ cbulk # <<>>) => cshort = cbulk

\* C6: a marshaling call calls free at most once, also when free raises.
C6_NoSecondRelease ==
  Exited => Cardinality(EventsOf(done.log, "free")) <= 1

\* the module's error string as getStr reads it
ModuleErrorString == GetStr(mem, memGen, memGen, ErrPtr)

C7_Step ==
  /\ \A i \in DOMAIN errors : i \in DOMAIN errors' /\ errors'[i] = errors[i]
  /\ Len(errors') = Len(errors) + 1 =>
       LET e == errors'[Len(errors')]
       IN /\ e.error.name = "SqliteError"
          /\ e.error.message = ModuleErrorString
          /\ e.error.code = IF e.given = <<>> THEN lastStatus ELSE e.given[1]

C8_Step ==
  Len(stack') = Len(stack) + 1 =>
    LET f == stack'[Len(stack')]
        payload == IF f.fn = "setStr" THEN TextEncode(f.str) ELSE f.bytes
        len == Len(payload)
    IN /\ Requested(f) = IF f.fn = "setStr" THEN len + 1 ELSE len
       /\ \A i \in 1 .. len : mem'[f.ptr + i - 1] = payload[i]
       /\ f.fn = "setStr" => mem'[f.ptr + len] = 0
       /\ \A a \in Addr \ Span(f.ptr, Requested(f)) : mem'[a] = mem[a]

\* C8: setStr asks for byteLength + 1 bytes and, when the closure starts,
\* the memory holds the UTF-8 bytes and a 0 at ptr; setArr asks for the
\* array's length and the memory holds the array at ptr; no byte outside
\* the allocated span has changed.
C8_Footprint == [][C8_Step]_vars

\* "héllo": 7 bytes, 68 C3 A9 6C 6C 6F 00, over memory a call has used
C8_Witness ==
  \E f \in Frames :
    /\ f.str = <<104, 233, 108, 108, 111>>
    /\ Requested(f) = 7
    /\ [i \in 1 .. 7 |-> mem[f.ptr + i - 1]] = <<104, 195, 169, 108, 108, 111, 0>>
    /\ Exited /\ done.ptr = f.ptr

\* C9: every view is built right after the malloc or str_len call of its
\* operation, is read or written right after it is built, and is on the
\* buffer that is current at that read or write.
C9_FreshViews ==
  \A f \in Frames : \A i \in DOMAIN f.log :
    /\ f.log[i].ev = "view" =>
         i > 1 /\ f.log[i - 1].ev \in {"malloc", "strlen"}
    /\ f.log[i].ev \in {"write", "read"} =>
         /\ i > 1 /\ f.log[i - 1].ev = "view"
         /\ f.log[i - 1].a = f.log[i].a
         /\ f.log[i].a = f.log[i].b

\* the memory grew in the malloc call of a setStr, whose closure read the
\* string
C9_Witness ==
  \E f \in Frames : \E i, j \in DOMAIN f.log :
    /\ f.log[i].ev = "write" /\ f.log[i].b = 1
    /\ f.log[j].ev = "read"

C10_Balance ==
  ~trapped =>
    /\ heap = { [ptr |-> f.ptr, size |-> Requested(f)] : f \in Frames }
    /\ Cardinality(heap) = Len(stack)

\* a step of getStr: it changes the innermost call's record only
C10_GetStrStep ==
  (Len(stack') = Len(stack) /\ stack' # stack) => heap' = heap

====
